---- MODULE Spec2Model ----
(***************************************************************************)
(* Land use agreement invoices and identifiers of leasing/models/          *)
(* land_use_agreement.py: the settlement recompute                         *)
(* (LandUseAgreementInvoice.update_amounts), the invoice numbering         *)
(* (generate_number) and the identifier allocation                         *)
(* (LandUseAgreement.create_identifier), over a relational store.          *)
(*                                                                         *)
(* Amounts are integers (cents).  Rows of the store are soft-deleted:      *)
(* TimeStampedSafeDeleteModel keeps the row and the default manager        *)
(* (objects, related managers) hides it.                                   *)
(***************************************************************************)
EXTENDS Integers, Sequences, FiniteSets, TLC

\* ------------------------------------------------------------- bounds
NumInvoices == 2
MaxRows == 2
MaxPayments == 1
NumWorkers == 2
\* distinct (type, municipality, district) triples
NumKeys == 2
\* calls of a method one worker makes
MaxCalls == 2

InvoiceIds == 1..NumInvoices
Workers == 1..NumWorkers
Keys == 1..NumKeys
AgreementTable == "leasing_landuseagreement"
IdentifierTable == "leasing_landuseagreementidentifier"
Tables == {AgreementTable, IdentifierTable}

\* ------------------------------------------------------------- values
NULL == 0
CHARGE == "charge"
CREDIT_NOTE == "credit_note"
OPEN == "open"
PAID == "paid"
REFUNDED == "refunded"
InvoiceTypes == {CHARGE, CREDIT_NOTE}

\* the amounts a caller may enter (cents); a negative one is not refused
CompensationValues == {-2, 2}
PercentageValues == {50}
PaidValues == {-4, 3}
\* sign_date and plan_lawfulness_date a row may carry, as day numbers
SignDates == {0}
PlanLawfulnessDates == {360}

VARIABLES
    invoice,      \* the LandUseAgreementInvoice table: id -> stored row
    rows,         \* the LandUseAgreementInvoiceRow table
    payments,     \* the LandUseAgreementInvoicePayment table
    lastOp,       \* history: the last operation of the settlement
    pc,           \* where each worker is in the method it runs
    local,        \* each worker's in-memory objects and local variables
    seq_last,     \* sequences.Sequence row "invoice_numbers": last, NULL if absent
    seq_lock,     \* the worker whose transaction holds that row's lock
    log,          \* history: what was committed, in commit order
    identifier,   \* the LandUseAgreementIdentifier table
    agreement,    \* the LandUseAgreement table
    table_lock,   \* LOCK TABLE: table name -> the worker whose transaction holds it
    item,         \* the tables of the items related to applications and leases
    req,          \* history: the last serializer call, its arguments and outcome
    report        \* the leases a report is run on and what it returned

storeVars == <<invoice, rows, payments>>
workerVars == <<pc, local>>
numberVars == <<seq_last, seq_lock>>
agreementVars == <<identifier, agreement, table_lock>>
relatedVars == <<item, req, report>>
vars == <<invoice, rows, payments, lastOp, pc, local, seq_last, seq_lock, log,
          identifier, agreement, table_lock, item, req, report>>

\* ------------------------------------------------------------- helpers
RECURSIVE SumOver(_, _)
\* Sum of f[x] over the finite set S
SumOver(f, S) ==
    IF S = {} THEN 0
    ELSE LET x == CHOOSE y \in S : TRUE IN f[x] + SumOver(f, S \ {x})

\* days360(date1, date2): both dates are first days of a 30-day month
days360(date1, date2) == date2 - date1

\* leasing.utils.calculate_increase_with_360_day_calendar
calculate_increase_with_360_day_calendar(date1, date2, increase_percentage, current_amount) ==
    current_amount
        + (current_amount * days360(date1, date2) * increase_percentage) \div 36000

\* LandUseAgreementInvoiceRow.update_amount: the amount a row is given
update_amount_accumulating(row) ==
    row.amount + calculate_increase_with_360_day_calendar(
        row.sign_date, row.plan_lawfulness_date,
        row.increase_percentage, row.compensation_amount)

update_amount(row) ==
    calculate_increase_with_360_day_calendar(
        row.sign_date, row.plan_lawfulness_date,
        row.increase_percentage, row.compensation_amount)

\* self.rows: the rows of invoice i the default manager shows
VisibleRows(rs, i) == {r \in DOMAIN rs : rs[r].invoice = i /\ ~rs[r].deleted}

\* self.payments
VisiblePayments(ps, i) == {p \in DOMAIN ps : ps[p].invoice = i /\ ~ps[p].deleted}

\* self.credit_invoices.all()
credit_invoices(invs, i) ==
    {c \in DOMAIN invs : invs[c].credited_invoice = i /\ ~invs[c].deleted}

\* for row in self.rows.all(): row.update_amount()  (each row is saved)
UpdateRows(rs, i) ==
    [r \in DOMAIN rs |->
        IF r \in VisibleRows(rs, i)
        THEN [rs[r] EXCEPT !.amount = update_amount(rs[r])]
        ELSE rs[r]]

\* aggregate(sum=Sum(...)): None (the empty tuple) over no rows, else <<sum>>
Aggregate(f, S) == IF S = {} THEN <<>> ELSE <<SumOver(f, S)>>

\* `if not x: x = Decimal(0)`: None and zero both give zero
OrZero(x) == IF x = <<>> THEN 0 ELSE IF x[1] = 0 THEN 0 ELSE x[1]

rows_sum_ignoring_manager(rs, i) ==
    OrZero(Aggregate([r \in DOMAIN rs |-> rs[r].amount],
                     {r \in DOMAIN rs : rs[r].invoice = i}))

rows_sum(rs, i) ==
    OrZero(Aggregate([r \in DOMAIN rs |-> rs[r].amount], VisibleRows(rs, i)))

payments_total(ps, i) ==
    OrZero(Aggregate([p \in DOMAIN ps |-> ps[p].paid_amount], VisiblePayments(ps, i)))

\* self.credit_invoices.aggregate(sum=Sum("rows__amount")): ignores the manager
total_credited_amount_all_rows(invs, rs, i) ==
    SumOver([r \in DOMAIN rs |-> rs[r].amount],
            {r \in DOMAIN rs : invs[rs[r].invoice].credited_invoice = i})

\* the hand tally over credit_inv.rows.all() of every credit invoice
total_credited_amount(invs, rs, i) ==
    SumOver([c \in DOMAIN invs |->
                SumOver([r \in DOMAIN rs |-> rs[r].amount], VisibleRows(rs, c))],
            credit_invoices(invs, i))

outstanding_amount_unclamped(billed, paid, credited) == billed - paid - credited

\* max(Decimal(0), billed - payments_total - total_credited_amount)
outstanding_amount(billed, paid, credited) ==
    IF billed - paid - credited > 0 THEN billed - paid - credited ELSE 0

new_state_paid_first(self, billed, outstanding, credited) ==
    IF self.type = CHARGE /\ outstanding = 0 THEN PAID
    ELSE IF credited # 0 /\ credited >= billed THEN REFUNDED
    ELSE self.state

new_state_refunded_any_credit(self, billed, outstanding, credited) ==
    IF credited # 0 THEN REFUNDED
    ELSE IF self.type = CHARGE /\ outstanding = 0 THEN PAID
    ELSE self.state

new_state_payments_only(self, billed, outstanding, credited) ==
    IF credited # 0 /\ credited >= billed THEN REFUNDED
    ELSE IF self.type = CHARGE /\ outstanding = 0 /\ credited = 0 THEN PAID
    ELSE self.state

new_state_no_auto_complete(self, billed, outstanding, credited) ==
    IF credited # 0 /\ credited >= billed THEN REFUNDED
    ELSE IF self.type = CHARGE /\ outstanding = 0 /\ billed # 0 THEN PAID
    ELSE self.state

new_state_strict(self, billed, outstanding, credited) ==
    IF credited # 0 /\ credited > billed THEN REFUNDED
    ELSE IF self.type = CHARGE /\ outstanding = 0 THEN PAID
    ELSE self.state

new_state_reopening(self, billed, outstanding, credited) ==
    IF credited # 0 /\ credited >= billed THEN REFUNDED
    ELSE IF self.type = CHARGE /\ outstanding = 0 THEN PAID
    ELSE IF outstanding > 0 THEN OPEN
    ELSE self.state

\* the if / elif on total_credited_amount, type and outstanding_amount
new_state(self, billed, outstanding, credited) ==
    IF credited # 0 /\ credited >= billed THEN REFUNDED
    ELSE IF self.type = CHARGE /\ outstanding = 0 THEN PAID
    ELSE self.state

\* the fields update_amounts assigns to self, from what it read
Settle(self, billed, paid, credited) ==
    LET out == outstanding_amount(billed, paid, credited) IN
    [self EXCEPT !.billed_amount = billed,
                 !.total_amount = billed,
                 !.outstanding_amount = out,
                 !.state = new_state(self, billed, out, credited)]

\* ------------------------------------------------------------- store
\* lastOp records the last operation when it ended in update_amounts: the
\* invoice, and whether the operation before it was update_amounts on the same
\* invoice with nothing changed in between
Other == [op |-> "other", invoice |-> NULL, repeat |-> FALSE]

NewInvoice(t) ==
    [type |-> t, state |-> OPEN, billed_amount |-> 0, total_amount |-> 0,
     outstanding_amount |-> 0, credited_invoice |-> NULL, number |-> NULL,
     deleted |-> FALSE]

NewRow(i, comp, pct, sign, lawful, amt) ==
    [invoice |-> i, compensation_amount |-> comp, increase_percentage |-> pct,
     sign_date |-> sign, plan_lawfulness_date |-> lawful,
     amount |-> amt, deleted |-> FALSE]

NewPayment(i, amt) == [invoice |-> i, paid_amount |-> amt, deleted |-> FALSE]

\* a worker that holds no object: calls counts the calls it has made
NoLocal(n) ==
    [calls |-> n, id |-> NULL, self |-> NewInvoice(CHARGE), ret |-> NULL,
     retry |-> FALSE]

\* no serializer was called yet
NoCall == [op |-> "none", calls |-> 0]

\* no report was run yet
NoReport == [rents |-> <<>>, done |-> FALSE, ret |-> <<>>]

\* no related item exists, no serializer was called, no report was run
NoRelated ==
    /\ item = <<>>
    /\ req = NoCall
    /\ report = NoReport

\* no worker runs, no sequence row exists
Quiet ==
    /\ pc = [w \in Workers |-> "idle"]
    /\ local = [w \in Workers |-> NoLocal(0)]
    /\ seq_last = NULL
    /\ seq_lock = NULL
    /\ log = <<>>
    /\ identifier = <<>>
    /\ agreement = <<>>
    /\ table_lock = [t \in Tables |-> NULL]
    /\ NoRelated

Init ==
    /\ invoice \in [InvoiceIds -> {NewInvoice(t) : t \in InvoiceTypes}]
    /\ rows = <<>>
    /\ payments = <<>>
    /\ lastOp = Other
    /\ Quiet

\* LandUseAgreementInvoice.update_amounts on invoice i, loaded from the store
\* invs, rs, ps: the whole method, row saves and self.save() included
update_amounts(invs, rs, ps, i, again) ==
    LET rs1 == UpdateRows(rs, i)
        billed == rows_sum(rs1, i)
        paid == payments_total(ps, i)
        credited == total_credited_amount(invs, rs1, i)
    IN
    /\ rows' = rs1
    /\ payments' = ps
    /\ invoice' = [invs EXCEPT ![i] = Settle(invs[i], billed, paid, credited)]
    /\ lastOp' = [op |-> "update_amounts", invoice |-> i, repeat |-> again]
    /\ UNCHANGED <<workerVars, numberVars, log, agreementVars, relatedVars>>

\* The billing collaborator changes the children of an invoice and triggers the
\* recompute of that invoice.

\* a row is attached to invoice i
CreateRow(i, comp, pct, sign, lawful, amt) ==
    /\ Len(rows) < MaxRows
    /\ update_amounts(invoice, Append(rows, NewRow(i, comp, pct, sign, lawful, amt)),
                      payments, i, FALSE)

\* row.delete(): soft delete
DeleteRow(r) ==
    /\ r \in DOMAIN rows /\ ~rows[r].deleted
    /\ update_amounts(invoice, [rows EXCEPT ![r].deleted = TRUE], payments,
                      rows[r].invoice, FALSE)

CreatePayment(i, amt) ==
    /\ Len(payments) < MaxPayments
    /\ update_amounts(invoice, rows, Append(payments, NewPayment(i, amt)), i, FALSE)

DeletePayment(p) ==
    /\ p \in DOMAIN payments /\ ~payments[p].deleted
    /\ update_amounts(invoice, rows, [payments EXCEPT ![p].deleted = TRUE],
                      payments[p].invoice, FALSE)

\* invoice c becomes a credit invoice of invoice i (credited_invoice = i)
SetCreditedInvoice(c, i) ==
    /\ c # i
    /\ invoice[c].credited_invoice = NULL
    /\ invoice[i].credited_invoice = NULL
    /\ update_amounts([invoice EXCEPT ![c].credited_invoice = i], rows, payments, i, FALSE)

\* invoice.delete() of a credit invoice: soft delete
DeleteInvoice(c) ==
    /\ invoice[c].credited_invoice # NULL
    /\ ~invoice[c].deleted
    /\ update_amounts([invoice EXCEPT ![c].deleted = TRUE], rows, payments,
                      invoice[c].credited_invoice, FALSE)

\* update_amounts with no change before it
Recompute(i) ==
    update_amounts(invoice, rows, payments, i,
                   lastOp.op = "update_amounts" /\ lastOp.invoice = i)

Next ==
    \/ \E i \in InvoiceIds, comp \in CompensationValues, pct \in PercentageValues :
          \E sign \in SignDates, lawful \in PlanLawfulnessDates, amt \in {0, comp} :
             CreateRow(i, comp, pct, sign, lawful, amt)
    \/ \E r \in 1..MaxRows : DeleteRow(r)
    \/ \E i \in InvoiceIds, amt \in PaidValues : CreatePayment(i, amt)
    \/ \E p \in 1..MaxPayments : DeletePayment(p)
    \/ \E c, i \in InvoiceIds : SetCreditedInvoice(c, i)
    \/ \E c \in InvoiceIds : DeleteInvoice(c)
    \/ \E i \in InvoiceIds : Recompute(i)

Spec == Init /\ [][Next]_vars

\* ------------------------------------------------------------- settlement claims
\* What the store holds for invoice i, summed independently of update_amounts.
ShownRowsOf(i) == {r \in 1..Len(rows) : rows[r].invoice = i /\ rows[r].deleted = FALSE}
RowsTotal(i) == SumOver([r \in 1..Len(rows) |-> rows[r].amount], ShownRowsOf(i))
PaymentsTotal(i) ==
    SumOver([p \in 1..Len(payments) |-> payments[p].paid_amount],
            {p \in 1..Len(payments) :
                payments[p].invoice = i /\ payments[p].deleted = FALSE})
CreditRowsIn(invs, rs, i) ==
    {r \in 1..Len(rs) :
        /\ rs[r].deleted = FALSE
        /\ invs[rs[r].invoice].credited_invoice = i
        /\ invs[rs[r].invoice].deleted = FALSE}
CreditedTotalIn(invs, rs, i) ==
    SumOver([r \in 1..Len(rs) |-> rs[r].amount], CreditRowsIn(invs, rs, i))
CreditedTotal(i) == CreditedTotalIn(invoice, rows, i)
Balance(i) == invoice[i].billed_amount - PaymentsTotal(i) - CreditedTotal(i)
JustSettled == lastOp.op = "update_amounts"

\* C3: after update_amounts returns, outstanding_amount is
\* max(0, billed_amount - payments - credited rows), and so never negative.
C3_Outstanding ==
    JustSettled =>
        LET i == lastOp.invoice IN
        /\ invoice[i].outstanding_amount = (IF Balance(i) > 0 THEN Balance(i) ELSE 0)
        /\ invoice[i].outstanding_amount >= 0

\* C3 witness: a recompute in which payments plus credits exceed the billed amount.
C3_Witness ==
    /\ JustSettled
    /\ Balance(lastOp.invoice) < 0
    /\ invoice[lastOp.invoice].billed_amount > 0
    /\ invoice[lastOp.invoice].outstanding_amount = 0

\* C4: after update_amounts returns, billed_amount = total_amount = the sum of
\* the amounts of the invoice's current rows, 0 when it has none.
C4_Billed ==
    JustSettled =>
        LET i == lastOp.invoice IN
        /\ invoice[i].billed_amount = invoice[i].total_amount
        /\ invoice[i].billed_amount = RowsTotal(i)
        /\ (ShownRowsOf(i) = {} => invoice[i].billed_amount = 0)

\* C4 witness: a recompute of an invoice with two current rows and a deleted
\* sibling aside
C4_Witness ==
    /\ JustSettled
    /\ ShownRowsOf(lastOp.invoice) # {}
    /\ invoice[lastOp.invoice].billed_amount # 0
    /\ \E r \in 1..Len(rows) : rows[r].invoice = lastOp.invoice /\ rows[r].deleted

\* C5: the state after update_amounts is REFUNDED when the credited total is
\* non-zero and at least the billed amount, otherwise PAID when the type is
\* CHARGE and nothing is outstanding, otherwise the state before the call; an
\* invoice that is not a CHARGE is never set to PAID.
C5_StatePriority ==
    [][lastOp'.op = "update_amounts" =>
        LET i == lastOp'.invoice IN
        /\ invoice'[i].state =
              IF /\ CreditedTotalIn(invoice', rows', i) # 0
                 /\ CreditedTotalIn(invoice', rows', i) >= invoice'[i].billed_amount
              THEN REFUNDED
              ELSE IF invoice'[i].type = CHARGE /\ invoice'[i].outstanding_amount = 0
                   THEN PAID
                   ELSE invoice[i].state
        /\ (invoice[i].type # CHARGE /\ invoice[i].state # PAID
               => invoice'[i].state # PAID)]_vars

\* C5 witness: a settled CHARGE invoice with nothing outstanding whose credits
\* cover the billed amount (both branches apply) and which is REFUNDED, beside
\* a credit note with nothing outstanding that is still OPEN.
C5_Witness ==
    /\ JustSettled
    /\ invoice[lastOp.invoice].type = CHARGE
    /\ invoice[lastOp.invoice].outstanding_amount = 0
    /\ invoice[lastOp.invoice].billed_amount > 0
    /\ PaymentsTotal(lastOp.invoice) >= invoice[lastOp.invoice].billed_amount
    /\ CreditedTotal(lastOp.invoice) >= invoice[lastOp.invoice].billed_amount
    /\ invoice[lastOp.invoice].state = REFUNDED
    /\ \E c \in InvoiceIds :
          /\ invoice[c].type = CREDIT_NOTE
          /\ invoice[c].billed_amount > 0
          /\ invoice[c].state = OPEN

\* C6: update_amounts called again with nothing changed in between leaves
\* billed_amount, total_amount, outstanding_amount, state and every row amount
\* as the first call left them.
C6_Idempotent ==
    [][(JustSettled /\ lastOp'.op = "update_amounts" /\ lastOp'.repeat)
          => (invoice' = invoice /\ rows' = rows /\ payments' = payments)]_vars

\* C6 witness: a second call in succession on an invoice with rows, whose
\* first call changed its state.
C6_Witness ==
    /\ JustSettled
    /\ lastOp.repeat
    /\ ShownRowsOf(lastOp.invoice) # {}
    /\ invoice[lastOp.invoice].state # OPEN

\* C12: a recompute leaves the state as it was or sets PAID or REFUNDED; an
\* invoice that has left OPEN never returns to OPEN; and with a positive
\* outstanding amount and no credit invoices the state is left as it was.
C12_NeverBackToOpen ==
    [][\A i \in InvoiceIds :
          /\ invoice'[i].state \in {invoice[i].state, PAID, REFUNDED}
          /\ (invoice[i].state # OPEN => invoice'[i].state # OPEN)
          /\ (/\ lastOp'.op = "update_amounts" /\ lastOp'.invoice = i
              /\ invoice'[i].outstanding_amount > 0
              /\ \A c \in InvoiceIds : invoice'[c].credited_invoice # i)
                => invoice'[i].state = invoice[i].state]_vars

\* C12 witness: a recompute of an invoice without credit invoices that was
\* PAID and has an outstanding amount again (its payment was deleted), beside
\* one left OPEN with a positive outstanding amount.
C12_Witness ==
    /\ JustSettled
    /\ invoice[lastOp.invoice].state = PAID
    /\ invoice[lastOp.invoice].outstanding_amount > 0
    /\ \A c \in InvoiceIds : invoice[c].credited_invoice # lastOp.invoice
    /\ \E p \in 1..Len(payments) :
          payments[p].invoice = lastOp.invoice /\ payments[p].deleted
    /\ \E j \in InvoiceIds :
          /\ invoice[j].state = OPEN
          /\ invoice[j].outstanding_amount > 0
          /\ \A c \in InvoiceIds : invoice[c].credited_invoice # j

\* the invoice has credit invoices the store shows
HasCreditInvoices(i) ==
    \E c \in InvoiceIds : invoice[c].credited_invoice = i /\ invoice[c].deleted = FALSE

\* C13 as stated: after update_amounts, a CHARGE invoice whose payments cover
\* the billed amount and whose credit invoices' rows total at least the billed
\* amount is REFUNDED; a credited total above the billed amount gives
\* REFUNDED with outstanding_amount 0.
C13_RefundedThreshold ==
    JustSettled =>
        LET i == lastOp.invoice IN
        /\ (/\ invoice[i].type = CHARGE
            /\ PaymentsTotal(i) >= invoice[i].billed_amount
            /\ HasCreditInvoices(i)
            /\ CreditedTotal(i) >= invoice[i].billed_amount)
              => invoice[i].state = REFUNDED
        /\ (HasCreditInvoices(i) /\ CreditedTotal(i) > invoice[i].billed_amount)
              => (invoice[i].state = REFUNDED /\ invoice[i].outstanding_amount = 0)

\* C13 amended: the same for a credited total that is not zero, the
\* outstanding amount being 0 when the payments total is not negative.
C13_RefundedThresholdNonZero ==
    JustSettled =>
        LET i == lastOp.invoice IN
        /\ (/\ invoice[i].type = CHARGE
            /\ PaymentsTotal(i) >= invoice[i].billed_amount
            /\ HasCreditInvoices(i)
            /\ CreditedTotal(i) # 0
            /\ CreditedTotal(i) >= invoice[i].billed_amount)
              => invoice[i].state = REFUNDED
        /\ (/\ HasCreditInvoices(i)
            /\ CreditedTotal(i) # 0
            /\ CreditedTotal(i) > invoice[i].billed_amount)
              => /\ invoice[i].state = REFUNDED
                 /\ (PaymentsTotal(i) >= 0 => invoice[i].outstanding_amount = 0)

\* C13 witness: a paid-up CHARGE invoice whose credit rows total exactly the
\* billed amount, REFUNDED after the recompute.
C13_Witness ==
    /\ JustSettled
    /\ invoice[lastOp.invoice].type = CHARGE
    /\ invoice[lastOp.invoice].billed_amount > 0
    /\ PaymentsTotal(lastOp.invoice) = invoice[lastOp.invoice].billed_amount
    /\ CreditedTotal(lastOp.invoice) = invoice[lastOp.invoice].billed_amount
    /\ invoice[lastOp.invoice].state = REFUNDED
    /\ invoice[lastOp.invoice].outstanding_amount = 0

\* the store shows no row, no payment and no credit invoice of invoice i
Empty(i) ==
    /\ ShownRowsOf(i) = {}
    /\ \A p \in 1..Len(payments) : payments[p].invoice = i => payments[p].deleted
    /\ ~HasCreditInvoices(i)

\* C14 as stated: update_amounts on an invoice with no rows, no payments and
\* no credit invoices gives billed_amount 0 and outstanding_amount 0 and
\* leaves the state as it was.
C14_ZeroRowInvoice ==
    [][\A i \in InvoiceIds :
          (lastOp'.op = "update_amounts" /\ lastOp'.invoice = i /\ Empty(i)')
             => /\ invoice'[i].billed_amount = 0
                /\ invoice'[i].outstanding_amount = 0
                /\ invoice'[i].state = invoice[i].state]_vars

\* C14 amended: ... and leaves the state as it was unless the type is CHARGE,
\* in which case the state is PAID.
C14_ZeroRowInvoiceCharge ==
    [][\A i \in InvoiceIds :
          (lastOp'.op = "update_amounts" /\ lastOp'.invoice = i /\ Empty(i)')
             => /\ invoice'[i].billed_amount = 0
                /\ invoice'[i].outstanding_amount = 0
                /\ invoice'[i].state =
                      IF invoice[i].type = CHARGE THEN PAID ELSE invoice[i].state]_vars

\* C14 witness: a recomputed credit note with nothing attached that is still
\* OPEN, beside a charge with nothing attached that is PAID.
C14_Witness ==
    /\ JustSettled
    /\ Empty(lastOp.invoice)
    /\ invoice[lastOp.invoice].type = CREDIT_NOTE
    /\ invoice[lastOp.invoice].state = OPEN
    /\ \E j \in InvoiceIds :
          /\ Empty(j)
          /\ invoice[j].type = CHARGE
          /\ invoice[j].state = PAID
          /\ invoice[j].billed_amount = 0
          /\ invoice[j].outstanding_amount = 0

\* every stored row of every stored invoice that references invoice i,
\* soft-deleted or not
AllCreditRows(i) == {r \in 1..Len(rows) : invoice[rows[r].invoice].credited_invoice = i}
AllCreditedTotal(i) == SumOver([r \in 1..Len(rows) |-> rows[r].amount], AllCreditRows(i))
Clamp(x) == IF x > 0 THEN x ELSE 0

\* C15 as stated: the credited total update_amounts uses is the sum over all
\* rows of every credit invoice of the invoice, soft-deleted ones included.
C15_CreditedTotalAllRows ==
    JustSettled =>
        LET i == lastOp.invoice IN
        /\ invoice[i].outstanding_amount =
              Clamp(invoice[i].billed_amount - PaymentsTotal(i) - AllCreditedTotal(i))
        /\ (AllCreditedTotal(i) # 0 /\ AllCreditedTotal(i) >= invoice[i].billed_amount)
              => invoice[i].state = REFUNDED

\* C15 amended: the credited total is the sum over the rows that are not
\* soft-deleted of the credit invoices that are not soft-deleted, whatever
\* the state of the credit invoice.
C15_CreditedTotalShownRows ==
    JustSettled =>
        LET i == lastOp.invoice
            credited == SumOver([r \in 1..Len(rows) |-> rows[r].amount],
                                {r \in AllCreditRows(i) :
                                    /\ rows[r].deleted = FALSE
                                    /\ invoice[rows[r].invoice].deleted = FALSE})
        IN
        /\ invoice[i].outstanding_amount =
              Clamp(invoice[i].billed_amount - PaymentsTotal(i) - credited)
        /\ (credited # 0 /\ credited >= invoice[i].billed_amount)
              => invoice[i].state = REFUNDED

\* C15 witness: a recompute of a billed invoice whose credit invoice is no
\* longer OPEN and has a soft-deleted row: the row does not offset the invoice.
C15_Witness ==
    /\ JustSettled
    /\ invoice[lastOp.invoice].billed_amount > 0
    /\ invoice[lastOp.invoice].outstanding_amount = invoice[lastOp.invoice].billed_amount
    /\ \E r \in AllCreditRows(lastOp.invoice) :
          /\ rows[r].deleted
          /\ rows[r].amount > 0
          /\ invoice[rows[r].invoice].deleted = FALSE
          /\ invoice[rows[r].invoice].state # OPEN

\* C21: after update_amounts on a CHARGE invoice, nothing outstanding means
\* the state is PAID or REFUNDED.
C21_ChargeSettled ==
    JustSettled =>
        ((invoice[lastOp.invoice].type = CHARGE
             /\ invoice[lastOp.invoice].outstanding_amount = 0)
            => invoice[lastOp.invoice].state \in {PAID, REFUNDED})

\* C21 witness: a CHARGE invoice whose balance is zero through a payment
\* together with a credit invoice that does not cover the billed amount.
C21_Witness ==
    /\ JustSettled
    /\ invoice[lastOp.invoice].type = CHARGE
    /\ invoice[lastOp.invoice].outstanding_amount = 0
    /\ invoice[lastOp.invoice].state = PAID
    /\ PaymentsTotal(lastOp.invoice) > 0
    /\ CreditedTotal(lastOp.invoice) # 0
    /\ CreditedTotal(lastOp.invoice) < invoice[lastOp.invoice].billed_amount

\* C22 as stated: after update_amounts the invoice's state agrees with its
\* amounts: PAID has nothing outstanding, REFUNDED has a non-zero credited
\* total of at least the billed amount.
C22_StateAgrees ==
    JustSettled =>
        LET i == lastOp.invoice IN
        /\ invoice[i].state = PAID => invoice[i].outstanding_amount = 0
        /\ invoice[i].state = REFUNDED
              => (CreditedTotal(i) # 0 /\ CreditedTotal(i) >= invoice[i].billed_amount)

\* C22 amended: a state that update_amounts has just set agrees with the
\* amounts it wrote; a state it left as it was need not.
C22_NewStateAgrees ==
    [][\A i \in InvoiceIds :
          (/\ lastOp'.op = "update_amounts" /\ lastOp'.invoice = i
           /\ invoice'[i].state # invoice[i].state)
             => /\ invoice'[i].state = PAID => invoice'[i].outstanding_amount = 0
                /\ invoice'[i].state = REFUNDED
                      => /\ CreditedTotalIn(invoice', rows', i) # 0
                         /\ CreditedTotalIn(invoice', rows', i)
                               >= invoice'[i].billed_amount]_vars

\* C22 witness: an invoice just set to REFUNDED by its credit rows, beside a
\* PAID invoice whose payment was removed and which has an outstanding amount.
C22_Witness ==
    /\ JustSettled
    /\ invoice[lastOp.invoice].state = REFUNDED
    /\ CreditedTotal(lastOp.invoice) > 0
    /\ CreditedTotal(lastOp.invoice) >= invoice[lastOp.invoice].billed_amount
    /\ \E j \in InvoiceIds :
          /\ invoice[j].state = PAID
          /\ invoice[j].outstanding_amount > 0

\* ------------------------------------------------------------- invoice numbers
\* Workers load an invoice and call generate_number on their copy of it.

\* get_next_value("invoice_numbers", initial_value=1000000)
initial_value == 1000000

\* sequences.get_next_value selects the sequence row FOR UPDATE: worker w's
\* transaction gets the row lock when no other transaction holds it
SeqLockIgnored(w) == TRUE

SeqLockFree(w) == seq_lock = NULL

\* the value get_next_value returns and writes, from the stored last value
get_next_value(last) == IF last = NULL THEN initial_value ELSE last + 1

InitNumber ==
    /\ invoice = [i \in InvoiceIds |-> NewInvoice(CHARGE)]
    /\ rows = <<>>
    /\ payments = <<>>
    /\ lastOp = Other
    /\ Quiet

\* LandUseAgreementInvoice.objects.get(pk=i)
LoadInvoice(w, i) ==
    /\ pc[w] = "idle"
    /\ local[w].calls < MaxCalls
    /\ local' = [local EXCEPT ![w] = [NoLocal(local[w].calls) EXCEPT
                                        !.id = i, !.self = invoice[i]]]
    /\ pc' = [pc EXCEPT ![w] = "loaded"]
    /\ UNCHANGED <<storeVars, lastOp, numberVars, log, agreementVars, relatedVars>>

\* generate_number: `if self.number: return self.number`, else the atomic block
\* is entered
generate_number(w) ==
    /\ pc[w] = "loaded"
    /\ local[w].calls < MaxCalls
    /\ IF local[w].self.number # NULL
       THEN /\ pc' = [pc EXCEPT ![w] = "returned"]
            /\ local' = [local EXCEPT ![w].calls = @ + 1,
                                      ![w].ret = local[w].self.number]
       ELSE /\ pc' = [pc EXCEPT ![w] = "atomic"]
            /\ local' = [local EXCEPT ![w].calls = @ + 1, ![w].ret = NULL]
    /\ UNCHANGED <<storeVars, lastOp, numberVars, log, agreementVars, relatedVars>>

\* self.number = get_next_value(...): waits for the row lock, which the
\* transaction then holds until it ends
Allocate(w) ==
    /\ pc[w] = "atomic"
    /\ SeqLockFree(w)
    /\ seq_lock' = w
    /\ local' = [local EXCEPT ![w].self.number = get_next_value(seq_last)]
    /\ pc' = [pc EXCEPT ![w] = "allocated"]
    /\ UNCHANGED <<storeVars, lastOp, seq_last, log, agreementVars, relatedVars>>

\* get_next_value raises (connection loss, lock timeout): nothing is assigned
AllocateFails(w) ==
    /\ pc[w] = "atomic"
    /\ pc' = [pc EXCEPT ![w] = "raised"]
    /\ UNCHANGED <<storeVars, lastOp, local, numberVars, log, agreementVars, relatedVars>>

\* self.save() and the commit of the atomic block: every field of the
\* worker's copy is written, the new last value becomes visible, the lock goes
SaveAndCommit(w) ==
    /\ pc[w] = "allocated"
    /\ invoice' = [invoice EXCEPT ![local[w].id] = local[w].self]
    /\ seq_last' = local[w].self.number
    /\ seq_lock' = NULL
    /\ log' = Append(log, [worker |-> w, key |-> local[w].id,
                           value |-> local[w].self.number])
    /\ local' = [local EXCEPT ![w].ret = local[w].self.number]
    /\ pc' = [pc EXCEPT ![w] = "returned"]
    /\ UNCHANGED <<rows, payments, lastOp, agreementVars, relatedVars>>

\* self.save() raises: the atomic block rolls the allocation back and the
\* exception reaches the caller; self.number keeps the value assigned to it
SaveFails(w) ==
    /\ pc[w] = "allocated"
    /\ seq_lock' = NULL
    /\ pc' = [pc EXCEPT ![w] = "raised"]
    /\ UNCHANGED <<storeVars, lastOp, local, seq_last, log, agreementVars, relatedVars>>

\* the caller calls generate_number again on the object it holds
CallAgain(w) ==
    /\ pc[w] \in {"returned", "raised"}
    /\ local[w].calls < MaxCalls
    /\ local' = [local EXCEPT ![w].retry = (pc[w] = "raised")]
    /\ pc' = [pc EXCEPT ![w] = "loaded"]
    /\ UNCHANGED <<storeVars, lastOp, numberVars, log, agreementVars, relatedVars>>

\* the caller drops the object
Release(w) ==
    /\ pc[w] \in {"returned", "raised"}
    /\ local' = [local EXCEPT ![w] = NoLocal(local[w].calls)]
    /\ pc' = [pc EXCEPT ![w] = "idle"]
    /\ UNCHANGED <<storeVars, lastOp, numberVars, log, agreementVars, relatedVars>>

NextNumber ==
    \/ \E w \in Workers, i \in InvoiceIds : LoadInvoice(w, i)
    \/ \E w \in Workers : generate_number(w)
    \/ \E w \in Workers : Allocate(w)
    \/ \E w \in Workers : AllocateFails(w)
    \/ \E w \in Workers : SaveAndCommit(w)
    \/ \E w \in Workers : SaveFails(w)
    \/ \E w \in Workers : CallAgain(w)
    \/ \E w \in Workers : Release(w)

SpecNumber == InitNumber /\ [][NextNumber]_vars

\* ------------------------------------------------------------- numbering claims
\* C1: the numbers committed by generate_number are distinct, all at least
\* 1000000, the first exactly 1000000, and strictly increasing in commit order.
C1_NumbersIncrease ==
    /\ \A k \in 1..Len(log) : log[k].value >= 1000000
    /\ (Len(log) > 0 => log[1].value = 1000000)
    /\ \A k \in 1..Len(log) : \A m \in 1..Len(log) :
          k < m => log[k].value < log[m].value

\* C1 witness: two workers were inside generate_number for distinct invoices
\* at once and both have committed.
C1_Witness ==
    /\ Len(log) >= 2
    /\ log[1].key # log[2].key
    /\ log[1].worker # log[2].worker
    /\ pc[log[1].worker] = "returned"
    /\ local[log[1].worker].calls = 1
    /\ local[log[2].worker].calls = 1

\* C7: once an invoice has a persisted number, no call of generate_number
\* changes that number or advances the sequence for that invoice.
C7_NumberPermanent ==
    [][\A i \in InvoiceIds :
          invoice[i].number # NULL =>
             /\ invoice'[i].number = invoice[i].number
             /\ (Len(log') > Len(log) /\ log'[Len(log')].key = i
                    => seq_last' = seq_last)]_vars

\* C9: a call of generate_number that fails leaves no number behind, neither
\* stored nor on the caller's object, and a retry on the same object persists
\* a number that no other invoice holds.
C9_FailureIssuesNothing ==
    \A w \in Workers :
       /\ (pc[w] = "raised" /\ ~local[w].retry =>
              /\ local[w].self.number = NULL
              /\ ((\A k \in 1..Len(log) : log[k].key # local[w].id)
                     => invoice[local[w].id].number = NULL))
       /\ (pc[w] = "returned" /\ local[w].retry =>
              /\ local[w].ret # NULL
              /\ \E k \in 1..Len(log) :
                    log[k].key = local[w].id /\ log[k].value = local[w].ret
              /\ \A j \in InvoiceIds \ {local[w].id} :
                    invoice[j].number # local[w].ret)

\* ------------------------------------------------------------- identifiers
\* Workers save LandUseAgreement objects; save() calls create_identifier().
\* A worker whose save has returned or raised goes on to its next object.
\* A key stands for one (type, municipality, district); NULL for one of them
\* missing.

\* the worker's LandUseAgreement object and the locals of create_identifier
NoAgreement(n) ==
    [calls |-> n, self |-> [id |-> NULL, key |-> NULL, identifier_id |-> NULL],
     max_sequence |-> NULL]

InitIdentifier ==
    /\ invoice = [i \in InvoiceIds |-> NewInvoice(CHARGE)]
    /\ rows = <<>>
    /\ payments = <<>>
    /\ lastOp = Other
    /\ pc = [w \in Workers |-> "idle"]
    /\ local = [w \in Workers |-> NoAgreement(0)]
    /\ seq_last = NULL
    /\ seq_lock = NULL
    /\ log = <<>>
    /\ identifier = <<>>
    /\ agreement = <<>>
    /\ table_lock = [t \in Tables |-> NULL]
    /\ NoRelated

\* self._meta.db_table of the LandUseAgreement that runs create_identifier
db_table == AgreementTable

\* LandUseAgreementIdentifier.objects.filter(type=, municipality=, district=):
\* the default manager leaves out soft-deleted rows
FilterIdentifiers(ids, key) ==
    {r \in DOMAIN ids : ids[r].key = key /\ ~ids[r].deleted}

\* the aggregate without the filter on type, municipality and district
MaxSequenceAnyKey(ids, key) ==
    IF {r \in DOMAIN ids : ~ids[r].deleted} = {} THEN 0
    ELSE CHOOSE m \in {ids[r].sequence : r \in {q \in DOMAIN ids : ~ids[q].deleted}} :
            \A r \in {q \in DOMAIN ids : ~ids[q].deleted} : ids[r].sequence <= m

\* .aggregate(Max("sequence"))["sequence__max"], then `if not max_sequence`
MaxSequence(ids, key) ==
    IF FilterIdentifiers(ids, key) = {} THEN 0
    ELSE CHOOSE m \in {ids[r].sequence : r \in FilterIdentifiers(ids, key)} :
            \A r \in FilterIdentifiers(ids, key) : ids[r].sequence <= m

\* unique_together = (type, municipality, district, sequence): a constraint of
\* the table, over every stored row
NoUniqueTogether(ids, key, seq) == FALSE

UniqueViolation(ids, key, seq) ==
    \E r \in DOMAIN ids : ids[r].key = key /\ ids[r].sequence = seq

\* LandUseAgreement(type=, municipality=, district=, ...): a new object
NewAgreement(w, key) ==
    /\ pc[w] \in {"idle", "returned", "raised"}
    /\ local[w].calls < MaxCalls
    /\ local' = [local EXCEPT ![w] = [NoAgreement(local[w].calls) EXCEPT !.self.key = key]]
    /\ pc' = [pc EXCEPT ![w] = "save"]
    /\ UNCHANGED <<storeVars, lastOp, numberVars, log, agreementVars, relatedVars>>

\* LandUseAgreement.objects.get(pk=a)
LoadAgreement(w, a) ==
    /\ pc[w] \in {"idle", "returned", "raised"}
    /\ local[w].calls < MaxCalls
    /\ a \in DOMAIN agreement
    /\ local' = [local EXCEPT ![w] = [NoAgreement(local[w].calls) EXCEPT
                    !.self = [id |-> a, key |-> agreement[a].key,
                              identifier_id |-> agreement[a].identifier_id]]]
    /\ pc' = [pc EXCEPT ![w] = "save"]
    /\ UNCHANGED <<storeVars, lastOp, numberVars, log, agreementVars, relatedVars>>

\* an update of a stored agreement that lacks one of type, municipality and
\* district: the object is loaded and the caller sets them before save()
UpdateAgreement(w, a, key) ==
    /\ pc[w] \in {"idle", "returned", "raised"}
    /\ local[w].calls < MaxCalls
    /\ a \in DOMAIN agreement
    /\ agreement[a].key = NULL
    /\ local' = [local EXCEPT ![w] = [NoAgreement(local[w].calls) EXCEPT
                    !.self = [id |-> a, key |-> key,
                              identifier_id |-> agreement[a].identifier_id]]]
    /\ pc' = [pc EXCEPT ![w] = "save"]
    /\ UNCHANGED <<storeVars, lastOp, numberVars, log, agreementVars, relatedVars>>

\* save() enters create_identifier: the two early returns, else the atomic
\* block goes on to LOCK TABLE
create_identifier(w) ==
    /\ pc[w] = "save"
    /\ local' = [local EXCEPT ![w].calls = @ + 1]
    /\ IF local[w].self.identifier_id # NULL \/ local[w].self.key = NULL
       THEN pc' = [pc EXCEPT ![w] = "super_save"]
       ELSE pc' = [pc EXCEPT ![w] = "lock"]
    /\ UNCHANGED <<storeVars, lastOp, numberVars, log, agreementVars, relatedVars>>

\* cursor.execute("LOCK TABLE %s" % self._meta.db_table): waits until no other
\* transaction holds the table, then holds it until the transaction ends
LockTable(w) ==
    /\ pc[w] = "lock"
    /\ table_lock[db_table] = NULL
    /\ table_lock' = [table_lock EXCEPT ![db_table] = w]
    /\ pc' = [pc EXCEPT ![w] = "locked"]
    /\ UNCHANGED <<storeVars, lastOp, numberVars, log, local, identifier, agreement, relatedVars>>

\* max_sequence = ...aggregate(Max("sequence")); if not max_sequence: 0
ReadMaxSequence(w) ==
    /\ pc[w] = "locked"
    /\ local' = [local EXCEPT ![w].max_sequence = MaxSequence(identifier, local[w].self.key)]
    /\ pc' = [pc EXCEPT ![w] = "read"]
    /\ UNCHANGED <<storeVars, lastOp, numberVars, log, agreementVars, relatedVars>>

\* a transaction that ends without giving up its locks
KeepLocks(w) == table_lock

\* the transaction's locks go when it commits or rolls back
ReleaseLocks(w) == [t \in Tables |-> IF table_lock[t] = w THEN NULL ELSE table_lock[t]]

\* LandUseAgreementIdentifier.objects.create(..., sequence=max_sequence + 1),
\* self.identifier = identifier, and the commit of create_identifier
CreateIdentifier(w) ==
    /\ pc[w] = "read"
    /\ table_lock[IdentifierTable] \in {NULL, w}
    /\ ~UniqueViolation(identifier, local[w].self.key, local[w].max_sequence + 1)
    /\ identifier' = Append(identifier,
          [key |-> local[w].self.key, sequence |-> local[w].max_sequence + 1,
           deleted |-> FALSE])
    /\ local' = [local EXCEPT ![w].self.identifier_id = Len(identifier) + 1]
    /\ log' = Append(log, [worker |-> w, key |-> local[w].self.key,
                           value |-> local[w].max_sequence + 1,
                           after_delete |-> \E r \in DOMAIN identifier :
                               /\ identifier[r].key = local[w].self.key
                               /\ identifier[r].deleted])
    /\ table_lock' = ReleaseLocks(w)
    /\ pc' = [pc EXCEPT ![w] = "super_save"]
    /\ UNCHANGED <<storeVars, lastOp, numberVars, agreement, relatedVars>>

\* the insert breaks unique_together: IntegrityError, the transaction rolls back
CreateIdentifierFails(w) ==
    /\ pc[w] = "read"
    /\ table_lock[IdentifierTable] \in {NULL, w}
    /\ UniqueViolation(identifier, local[w].self.key, local[w].max_sequence + 1)
    /\ table_lock' = ReleaseLocks(w)
    /\ pc' = [pc EXCEPT ![w] = "raised"]
    /\ UNCHANGED <<storeVars, lastOp, numberVars, log, local, identifier, agreement, relatedVars>>

\* super().save(): the agreement row is inserted, or updated when it has an id
SuperSave(w) ==
    /\ pc[w] = "super_save"
    /\ table_lock[AgreementTable] \in {NULL, w}
    /\ IF local[w].self.id = NULL
       THEN /\ agreement' = Append(agreement,
                   [key |-> local[w].self.key,
                    identifier_id |-> local[w].self.identifier_id])
            /\ local' = [local EXCEPT ![w].self.id = Len(agreement) + 1]
       ELSE /\ agreement' = [agreement EXCEPT ![local[w].self.id] =
                   [key |-> local[w].self.key,
                    identifier_id |-> local[w].self.identifier_id]]
            /\ local' = local
    /\ pc' = [pc EXCEPT ![w] = "returned"]
    /\ UNCHANGED <<storeVars, lastOp, numberVars, log, identifier, table_lock, relatedVars>>

\* super().save() raises: the identifier made by create_identifier is
\* already committed
SuperSaveFails(w) ==
    /\ pc[w] = "super_save"
    /\ pc' = [pc EXCEPT ![w] = "raised"]
    /\ UNCHANGED <<storeVars, lastOp, numberVars, log, local, agreementVars, relatedVars>>

\* identifier.delete(): soft delete of a LandUseAgreementIdentifier row
SoftDeleteIdentifier(r) ==
    /\ r \in DOMAIN identifier
    /\ ~identifier[r].deleted
    /\ table_lock[IdentifierTable] = NULL
    /\ identifier' = [identifier EXCEPT ![r].deleted = TRUE]
    /\ UNCHANGED <<storeVars, lastOp, numberVars, workerVars, log, agreement, table_lock, relatedVars>>

NextIdentifier ==
    \/ \E w \in Workers, key \in Keys \cup {NULL} : NewAgreement(w, key)
    \/ \E w \in Workers, a \in 1..(NumWorkers * MaxCalls) : LoadAgreement(w, a)
    \/ \E w \in Workers, a \in 1..(NumWorkers * MaxCalls), key \in Keys :
          UpdateAgreement(w, a, key)
    \/ \E w \in Workers : create_identifier(w)
    \/ \E w \in Workers : LockTable(w)
    \/ \E w \in Workers : ReadMaxSequence(w)
    \/ \E w \in Workers : CreateIdentifier(w)
    \/ \E w \in Workers : CreateIdentifierFails(w)
    \/ \E w \in Workers : SuperSave(w)
    \/ \E w \in Workers : SuperSaveFails(w)
    \/ \E r \in 1..(NumWorkers * MaxCalls) : SoftDeleteIdentifier(r)

SpecIdentifier == InitIdentifier /\ [][NextIdentifier]_vars

\* ------------------------------------------------------------- identifier claims
\* a worker between its read of the maximum and the end of its transaction
InCriticalSection(w) == pc[w] \in {"locked", "read"}

\* C2: create_identifier holds a lock on the LandUseAgreementIdentifier table
\* from before it reads the maximum sequence until its transaction commits, so
\* no two transactions read the same maximum for one (type, municipality,
\* district) and no two identifier rows share (type, municipality, district,
\* sequence).
C2_IdentifierTableLocked ==
    /\ \A w \in Workers : InCriticalSection(w) => table_lock[IdentifierTable] = w
    /\ \A w1 \in Workers : \A w2 \in Workers \ {w1} :
          ~(/\ pc[w1] = "read" /\ pc[w2] = "read"
            /\ local[w1].self.key = local[w2].self.key
            /\ local[w1].max_sequence = local[w2].max_sequence)
    /\ \A r1 \in DOMAIN identifier : \A r2 \in DOMAIN identifier :
          (r1 # r2 /\ identifier[r1].key = identifier[r2].key)
             => identifier[r1].sequence # identifier[r2].sequence

\* C8: for each (type, municipality, district), with soft deletions in
\* between, the sequence numbers issued never decrease and no number is issued
\* twice.
C8_SequenceNeverReissued ==
    \A k \in 1..Len(log) : \A m \in 1..Len(log) :
       (k < m /\ log[k].key = log[m].key) => log[k].value < log[m].value

\* C8 witness: an identifier was issued and soft-deleted, then a further
\* identifier of the same key was issued; and a caller whose number was taken
\* by a soft-deleted row was refused.
C8_Witness ==
    /\ \E m \in 1..Len(log) : log[m].after_delete
    /\ \E w \in Workers :
          /\ pc[w] = "raised"
          /\ local[w].max_sequence # NULL
          /\ \E r \in DOMAIN identifier :
                /\ identifier[r].deleted
                /\ identifier[r].key = local[w].self.key
                /\ identifier[r].sequence = local[w].max_sequence + 1

\* the issues of the log for one key, in commit order
IssuesBefore(m) == {k \in 1..(m - 1) : log[k].key = log[m].key}

\* C17: for a (type, municipality, district) none of whose identifiers is
\* deleted, the sequences issued are 1, 2, ..., n in commit order: the first
\* is 1 and each later one is the previous maximum plus 1.
C17_NoGaps ==
    \A m \in 1..Len(log) :
       (\A r \in DOMAIN identifier :
           identifier[r].key = log[m].key => ~identifier[r].deleted)
          => log[m].value = Cardinality(IssuesBefore(m)) + 1

\* C17 witness: three identifiers of one key issued to callers of both
\* workers, none deleted.
C17_Witness ==
    /\ Len(log) >= 3
    /\ \A m \in 1..3 : log[m].key = log[1].key
    /\ \E m \in 1..3 : log[m].worker # log[1].worker
    /\ \A r \in DOMAIN identifier : ~identifier[r].deleted

C24_NoOrphanIdentifier ==
    (\A w \in Workers : pc[w] \in {"idle", "returned", "raised"}) =>
        \A r \in DOMAIN identifier :
           Cardinality({a \in DOMAIN agreement : agreement[a].identifier_id = r}) = 1

\* ------------------------------------------------------------- concurrent recompute
\* Workers change the rows, the payments or the credit rows of an invoice and
\* then call update_amounts on their copy of it.  Nothing in update_amounts
\* opens a transaction or takes a lock: every query and every save is a
\* statement of its own, and other workers' statements come in between.

\* the worker's invoice object and the locals of update_amounts
NoRecompute(n) ==
    [calls |-> n, id |-> NULL, self |-> NewInvoice(CHARGE), payments_total |-> 0]

\* invoice 1 is a charge, the last invoice is a credit note against it
InitRecompute ==
    /\ invoice = [i \in InvoiceIds |->
                    IF i = NumInvoices /\ i # 1
                    THEN [NewInvoice(CREDIT_NOTE) EXCEPT !.credited_invoice = 1]
                    ELSE NewInvoice(CHARGE)]
    /\ rows = <<>>
    /\ payments = <<>>
    /\ lastOp = Other
    /\ pc = [w \in Workers |-> "idle"]
    /\ local = [w \in Workers |-> NoRecompute(0)]
    /\ seq_last = NULL
    /\ seq_lock = NULL
    /\ log = <<>>
    /\ identifier = <<>>
    /\ agreement = <<>>
    /\ table_lock = [t \in Tables |-> NULL]
    /\ NoRelated

\* LandUseAgreementInvoice.objects.get(pk=i), for an invoice that is not
\* itself a credit note
Load(w, i) ==
    /\ pc[w] \in {"idle", "returned", "raised"}
    /\ local[w].calls < MaxCalls
    /\ invoice[i].credited_invoice = NULL
    /\ local' = [local EXCEPT ![w] = [NoRecompute(local[w].calls + 1) EXCEPT
                                        !.id = i, !.self = invoice[i]]]
    /\ pc' = [pc EXCEPT ![w] = "loaded"]
    /\ UNCHANGED <<storeVars, lastOp, numberVars, log, agreementVars, relatedVars>>

\* the change that triggers the recompute: a row for the invoice
AddRow(w, comp, pct, sign, lawful) ==
    /\ pc[w] = "loaded"
    /\ Len(rows) < MaxRows
    /\ rows' = Append(rows, NewRow(local[w].id, comp, pct, sign, lawful, 0))
    /\ pc' = [pc EXCEPT ![w] = "changed"]
    /\ UNCHANGED <<invoice, payments, lastOp, local, numberVars, log, agreementVars, relatedVars>>

\* ... a payment for the invoice
AddPayment(w, amt) ==
    /\ pc[w] = "loaded"
    /\ Len(payments) < MaxPayments
    /\ payments' = Append(payments, NewPayment(local[w].id, amt))
    /\ pc' = [pc EXCEPT ![w] = "changed"]
    /\ UNCHANGED <<invoice, rows, lastOp, local, numberVars, log, agreementVars, relatedVars>>

\* ... a row for a credit invoice of the invoice
AddCreditRow(w, c, amt) ==
    /\ pc[w] = "loaded"
    /\ Len(rows) < MaxRows
    /\ invoice[c].credited_invoice = local[w].id
    /\ rows' = Append(rows, NewRow(c, amt, 0, 0, 0, amt))
    /\ pc' = [pc EXCEPT ![w] = "changed"]
    /\ UNCHANGED <<invoice, payments, lastOp, local, numberVars, log, agreementVars, relatedVars>>

\* update_amounts: for row in self.rows.all(): row.update_amount()
UpdateAmountsRows(w) ==
    /\ pc[w] \in {"loaded", "changed"}
    /\ rows' = UpdateRows(rows, local[w].id)
    /\ pc' = [pc EXCEPT ![w] = "rows_updated"]
    /\ UNCHANGED <<invoice, payments, lastOp, local, numberVars, log, agreementVars, relatedVars>>

\* the assignment of billed_amount and total_amount followed by a save of its own
UpdateAmountsSumSaved(w) ==
    /\ pc[w] = "rows_updated"
    /\ local' = [local EXCEPT
                    ![w].self.billed_amount = rows_sum(rows, local[w].id),
                    ![w].self.total_amount = rows_sum(rows, local[w].id)]
    /\ invoice' = [invoice EXCEPT
                    ![local[w].id].billed_amount = rows_sum(rows, local[w].id),
                    ![local[w].id].total_amount = rows_sum(rows, local[w].id)]
    /\ pc' = [pc EXCEPT ![w] = "summed"]
    /\ UNCHANGED <<rows, payments, lastOp, numberVars, log, agreementVars, relatedVars>>

\* rows_sum = self.rows.aggregate(...); self.billed_amount = self.total_amount = rows_sum
UpdateAmountsSum(w) ==
    /\ pc[w] = "rows_updated"
    /\ local' = [local EXCEPT
                    ![w].self.billed_amount = rows_sum(rows, local[w].id),
                    ![w].self.total_amount = rows_sum(rows, local[w].id)]
    /\ pc' = [pc EXCEPT ![w] = "summed"]
    /\ UNCHANGED <<storeVars, lastOp, numberVars, log, agreementVars, relatedVars>>

\* payments_total = self.payments.aggregate(...)
UpdateAmountsPayments(w) ==
    /\ pc[w] = "summed"
    /\ local' = [local EXCEPT ![w].payments_total = payments_total(payments, local[w].id)]
    /\ pc' = [pc EXCEPT ![w] = "payments_read"]
    /\ UNCHANGED <<storeVars, lastOp, numberVars, log, agreementVars, relatedVars>>

\* the tally of the credit rows, self.outstanding_amount and self.state
UpdateAmountsCredits(w) ==
    /\ pc[w] = "payments_read"
    /\ local' = [local EXCEPT ![w].self =
          Settle(local[w].self, local[w].self.billed_amount, local[w].payments_total,
                 total_credited_amount(invoice, rows, local[w].id))]
    /\ pc' = [pc EXCEPT ![w] = "settled"]
    /\ UNCHANGED <<storeVars, lastOp, numberVars, log, agreementVars, relatedVars>>

\* self.save(): every field of the worker's copy is written
UpdateAmountsSave(w) ==
    /\ pc[w] = "settled"
    /\ invoice' = [invoice EXCEPT ![local[w].id] = local[w].self]
    /\ pc' = [pc EXCEPT ![w] = "returned"]
    /\ UNCHANGED <<rows, payments, lastOp, local, numberVars, log, agreementVars, relatedVars>>

\* a statement of update_amounts raises (a row save, a query or self.save()):
\* the exception reaches the caller; what earlier statements saved stays
UpdateAmountsFails(w) ==
    /\ pc[w] \in {"rows_updated", "summed", "payments_read", "settled"}
    /\ pc' = [pc EXCEPT ![w] = "raised"]
    /\ UNCHANGED <<storeVars, lastOp, local, numberVars, log, agreementVars, relatedVars>>

NextRecompute ==
    \/ \E w \in Workers, i \in InvoiceIds : Load(w, i)
    \/ \E w \in Workers, comp \in CompensationValues, pct \in PercentageValues :
          \E sign \in SignDates, lawful \in PlanLawfulnessDates :
             AddRow(w, comp, pct, sign, lawful)
    \/ \E w \in Workers, amt \in PaidValues : AddPayment(w, amt)
    \/ \E w \in Workers, c \in InvoiceIds, amt \in CompensationValues :
          AddCreditRow(w, c, amt)
    \/ \E w \in Workers : UpdateAmountsRows(w)
    \/ \E w \in Workers : UpdateAmountsSum(w)
    \/ \E w \in Workers : UpdateAmountsPayments(w)
    \/ \E w \in Workers : UpdateAmountsCredits(w)
    \/ \E w \in Workers : UpdateAmountsSave(w)
    \/ \E w \in Workers : UpdateAmountsFails(w)

SpecRecompute == InitRecompute /\ [][NextRecompute]_vars

\* ------------------------------------------------------------- recompute claims
\* C10: once every concurrent update_amounts on an invoice has committed, the
\* stored billed_amount, total_amount and outstanding_amount are those
\* computed from the final rows, payments and credit rows.
C10_LastCommittedWins ==
    (\A w \in Workers : pc[w] \in {"idle", "returned"}) =>
        \A i \in InvoiceIds :
           invoice[i].credited_invoice = NULL =>
              /\ invoice[i].billed_amount = RowsTotal(i)
              /\ invoice[i].total_amount = RowsTotal(i)
              /\ invoice[i].outstanding_amount =
                    (IF Balance(i) > 0 THEN Balance(i) ELSE 0)

\* the four fields update_amounts derives
DerivedFields(inv) ==
    <<inv.billed_amount, inv.total_amount, inv.outstanding_amount, inv.state>>

\* C11: the stored billed_amount, total_amount, outstanding_amount and state
\* of an invoice change only together, in the one step that writes the values
\* one call of update_amounts computed; a call that fails writes none of them.
C11_AllOrNothing ==
    [][\A i \in InvoiceIds :
          /\ DerivedFields(invoice'[i]) # DerivedFields(invoice[i]) =>
                \E w \in Workers :
                   /\ pc[w] = "settled" /\ pc'[w] = "returned"
                   /\ local[w].id = i
                   /\ DerivedFields(invoice'[i]) = DerivedFields(local[w].self)
          /\ \A w \in Workers :
                (pc'[w] = "raised" /\ pc[w] # "raised" /\ local[w].id = i)
                   => invoice'[i] = invoice[i]]_vars

\* C11 witness: one call failed after it had computed a new billed amount
\* and the stored invoice has none of its values, while another call wrote a
\* new billed amount, a new outstanding amount and a new state at once.
C11_Witness ==
    \E w1 \in Workers : \E w2 \in Workers :
       /\ pc[w1] = "raised"
       /\ local[w1].self.billed_amount # invoice[local[w1].id].billed_amount
       /\ local[w1].self.billed_amount # 0
       /\ pc[w2] = "returned"
       /\ local[w2].id = local[w1].id
       /\ invoice[local[w2].id] = local[w2].self
       /\ local[w2].self.billed_amount # 0
       /\ local[w2].self.state # OPEN

\* the fields of an invoice that update_amounts does not derive
OtherFields(inv) == <<inv.type, inv.credited_invoice, inv.number, inv.deleted>>

\* C16: a step of update_amounts changes nothing in the store but the four
\* derived fields of the invoice it is called on: rows (their amounts
\* included), payments, the other invoices and the invoice's other fields
\* are as before.
C16_OnlyDerivedFields ==
    [][\A w \in Workers :
          (/\ pc'[w] # pc[w]
           /\ pc'[w] \in {"rows_updated", "summed", "payments_read", "settled",
                          "returned", "raised"})
             => /\ rows' = rows
                /\ payments' = payments
                /\ \A i \in InvoiceIds :
                      /\ OtherFields(invoice'[i]) = OtherFields(invoice[i])
                      /\ (i # local[w].id => invoice'[i] = invoice[i])]_vars

\* invoice i has a row or a payment with a negative amount
NegativeInput(i) ==
    \/ \E r \in ShownRowsOf(i) : rows[r].amount < 0
    \/ \E p \in 1..Len(payments) :
          /\ payments[p].invoice = i /\ payments[p].deleted = FALSE
          /\ payments[p].paid_amount < 0

\* C18: update_amounts on an invoice with a negative row amount or payment
\* amount fails before it touches the store: no step of it writes anything
\* and it does not return normally.
C18_InvalidInputRejected ==
    [][\A w \in Workers :
          (/\ pc'[w] # pc[w]
           /\ pc'[w] \in {"rows_updated", "summed", "payments_read", "settled",
                          "returned", "raised"}
           /\ NegativeInput(local[w].id))
             => (UNCHANGED storeVars /\ pc'[w] # "returned")]_vars

\* ------------------------------------------------------------- calls under fair scheduling
\* Each worker runs one of the three methods, call after call, beside the
\* others.  What a worker holds in local tells the method it runs.
Numbering(w) == "retry" \in DOMAIN local[w]
Identifying(w) == "max_sequence" \in DOMAIN local[w]
Recomputing(w) == "payments_total" \in DOMAIN local[w]

InitLive ==
    /\ invoice = [i \in InvoiceIds |-> NewInvoice(CHARGE)]
    /\ rows = <<>>
    /\ payments = <<>>
    /\ lastOp = Other
    /\ pc = [w \in Workers |-> "idle"]
    /\ local \in [Workers -> {NoLocal(0), NoAgreement(0), NoRecompute(0)}]
    /\ seq_last = NULL
    /\ seq_lock = NULL
    /\ log = <<>>
    /\ identifier = <<>>
    /\ agreement = <<>>
    /\ table_lock = [t \in Tables |-> NULL]
    /\ NoRelated

\* the statements of generate_number after its entry
NumberStep(w) ==
    /\ Numbering(w)
    /\ (Allocate(w) \/ AllocateFails(w) \/ SaveAndCommit(w) \/ SaveFails(w))

\* the statements of save() and create_identifier
IdentifierStep(w) ==
    /\ Identifying(w)
    /\ \/ create_identifier(w) \/ LockTable(w) \/ ReadMaxSequence(w)
       \/ CreateIdentifier(w) \/ CreateIdentifierFails(w)
       \/ SuperSave(w) \/ SuperSaveFails(w)

\* the statements of update_amounts after its first
RecomputeStep(w) ==
    /\ Recomputing(w)
    /\ \/ UpdateAmountsSum(w) \/ UpdateAmountsPayments(w) \/ UpdateAmountsCredits(w)
       \/ UpdateAmountsSave(w) \/ UpdateAmountsFails(w)

\* what the callers do between the calls
CallerStep(w) ==
    \/ /\ Numbering(w)
       /\ \/ \E i \in InvoiceIds : LoadInvoice(w, i)
          \/ generate_number(w) \/ CallAgain(w) \/ Release(w)
    \/ /\ Identifying(w)
       /\ \E key \in Keys \cup {NULL} : NewAgreement(w, key)
    \/ /\ Recomputing(w)
       /\ \/ \E i \in InvoiceIds : Load(w, i)
          \/ UpdateAmountsRows(w)

\* one identifier is soft-deleted beside the calls
DeleteOneIdentifier(r) ==
    /\ \A q \in DOMAIN identifier : ~identifier[q].deleted
    /\ SoftDeleteIdentifier(r)

NextLive ==
    \/ \E w \in Workers : NumberStep(w)
    \/ \E w \in Workers : IdentifierStep(w)
    \/ \E w \in Workers : RecomputeStep(w)
    \/ \E w \in Workers : CallerStep(w)
    \/ \E r \in 1..(NumWorkers * MaxCalls) : DeleteOneIdentifier(r)

\* A worker inside a call goes on with its next statement; the database
\* grants a lock to the transactions that wait for it in the order they asked.
SpecLive ==
    /\ InitLive
    /\ [][NextLive]_vars
    /\ \A w \in Workers :
          /\ WF_vars(NumberStep(w) \/ IdentifierStep(w) \/ RecomputeStep(w))
          /\ SF_vars((Numbering(w) /\ Allocate(w)) \/ (Identifying(w) /\ LockTable(w)))

\* worker w is inside a call of one of the three methods
InCall(w) ==
    pc[w] \in {"atomic", "allocated", "save", "lock", "locked", "read",
              "super_save", "rows_updated", "summed", "payments_read", "settled"}

\* the call of worker w has returned or raised and holds no lock
Finished(w) ==
    /\ pc[w] \in {"returned", "raised"}
    /\ seq_lock # w
    /\ \A t \in Tables : table_lock[t] # w

\* C19: under fair scheduling every call of create_identifier,
\* generate_number and update_amounts returns or raises, and then holds
\* neither the table lock nor the sequence row lock.
C19_EveryCallReturns == \A w \in Workers : InCall(w) ~> Finished(w)

\* C19 witness: a caller that waited for the table lock holds it after the
\* caller before it has committed its identifier and returned.
C19_Witness ==
    \E w1 \in Workers : \E w2 \in Workers \ {w1} :
       /\ Identifying(w1) /\ Identifying(w2)
       /\ Finished(w1)
       /\ \E m \in 1..Len(log) : log[m].worker = w1 /\ log[m].key = local[w2].self.key
       /\ pc[w2] = "read"
       /\ table_lock[db_table] = w2
       /\ local[w2].max_sequence >= 1

\* C23: when a worker has persisted a number for an invoice with
\* generate_number and another worker has run update_amounts on its own copy
\* of that invoice, and both have returned, the stored invoice carries that
\* number and the derived fields update_amounts wrote.
C23_NoLostUpdate ==
    \A w1 \in Workers : \A w2 \in Workers :
       (/\ Numbering(w1) /\ Recomputing(w2)
        /\ pc[w1] = "returned" /\ pc[w2] = "returned"
        /\ local[w1].id = local[w2].id
        /\ \E k \in 1..Len(log) :
              /\ "after_delete" \notin DOMAIN log[k]
              /\ log[k].worker = w1 /\ log[k].key = local[w1].id)
          => /\ invoice[local[w1].id].number = local[w1].ret
             /\ DerivedFields(invoice[local[w2].id]) = DerivedFields(local[w2].self)

\* ---------------------------------------------------------------------------
\* Nested collections of the serializers (leasing/serializers.py)
\* ---------------------------------------------------------------------------

\* bounds of the serializer model
NumParents == 2

MaxItems == 2

MaxEntries == 2

MaxUpdates == 2

\* the value of a field no serializer accepts, and the values it accepts
InvalidValue == 0

ItemValues == {1, 2}

\* parent of an item that manager.remove() took out of its relation is NULL;
\* a row that was deleted keeps its id, which is never given out again
DELETED == -1

\* a keyword argument that was not passed
None == "None"

ParentModels == {"application", "lease"}

Instances == [model : ParentModels, id : 1..NumParents]

\* the collection update() replaces and the one it merges, per parent model
ReplacedName == "building_footprints"

MergedName(model) == IF model = "application" THEN "areas" ELSE "decisions"

\* a row of a related model: the parent model and related_name stand for its
\* table, parent for its foreign key to the parent instance
NewItem(instance, related_name, value) ==
    [of |-> instance.model, related_name |-> related_name,
     parent |-> instance.id, value |-> value]

\* manager.all(): the rows of the relation that point to the instance
ManagerAll(items, instance, related_name) ==
    {k \in DOMAIN items : /\ items[k].of = instance.model
                          /\ items[k].related_name = related_name
                          /\ items[k].parent = instance.id}

\* manager.all().delete()
DeleteAll(items, instance, related_name) ==
    [k \in DOMAIN items |->
        IF k \in ManagerAll(items, instance, related_name)
        THEN [items[k] EXCEPT !.parent = DELETED] ELSE items[k]]

\* serializer.is_valid(): the entry's fields are acceptable
is_valid(entry) == entry.value # InvalidValue

\* the outcome of a helper: the tables it leaves and the exception it raised
Returned(items) == [item |-> items, raised |-> "none", key |-> "none"]

Raised(items, exception, key) == [item |-> items, raised |-> exception, key |-> key]

\* the loop of instance_replace_related from entry n on
RECURSIVE ReplaceLoop(_, _, _, _, _, _)
ReplaceLoop(items, instance, instance_name, related_name, validated_data, n) ==
    IF n > Len(validated_data) THEN Returned(items)
    ELSE IF ~is_valid(validated_data[n])
    THEN Raised(items, "ValidationError", related_name)
    ELSE IF instance_name = None
    THEN Raised(items, "TypeError", "none")
    ELSE ReplaceLoop(Append(items, NewItem(instance, related_name, validated_data[n].value)),
                     instance, instance_name, related_name, validated_data, n + 1)

instance_replace_related(items, instance, instance_name, related_name, validated_data) ==
    ReplaceLoop(DeleteAll(items, instance, related_name), instance, instance_name,
                related_name, validated_data, 1)

\* serializer_class.Meta.model._default_manager.get(id=pk) finds a row
Found(items, instance, related_name, pk) ==
    /\ pk # NULL
    /\ pk \in DOMAIN items
    /\ items[pk].of = instance.model
    /\ items[pk].related_name = related_name
    /\ items[pk].parent # DELETED

\* the reconciliation of instance_create_or_update_related after its loop
Reconcile(items, instance, related_name, new_items, has_remove) ==
    LET existing_items == ManagerAll(items, instance, related_name)
    IN  IF new_items = {} THEN Returned(items)
        ELSE IF existing_items \ new_items # {} /\ ~has_remove
        THEN Raised(items, "AttributeError", "none")
        ELSE Returned([k \in DOMAIN items |->
                 IF k \in existing_items \ new_items
                 THEN [items[k] EXCEPT !.parent = NULL]
                 ELSE IF k \in new_items \ existing_items
                 THEN [items[k] EXCEPT !.parent = instance.id]
                 ELSE items[k]])

\* the loop of instance_create_or_update_related from entry n on
RECURSIVE MergeLoop(_, _, _, _, _, _, _)
MergeLoop(items, instance, related_name, validated_data, n, new_items, has_remove) ==
    IF n > Len(validated_data)
    THEN Reconcile(items, instance, related_name, new_items, has_remove)
    ELSE LET item_data == validated_data[n]
             pk == item_data.id
         IN  IF ~is_valid(item_data)
             THEN Raised(items, "ValidationError", related_name)
             ELSE IF Found(items, instance, related_name, pk)
             THEN MergeLoop([items EXCEPT ![pk] = [@ EXCEPT !.value = item_data.value,
                                                            !.parent = instance.id]],
                            instance, related_name, validated_data, n + 1,
                            new_items \cup {pk}, has_remove)
             ELSE MergeLoop(Append(items, NewItem(instance, related_name, item_data.value)),
                            instance, related_name, validated_data, n + 1,
                            new_items \cup {Len(items) + 1}, has_remove)

instance_create_or_update_related(items, instance, related_name, validated_data, has_remove) ==
    MergeLoop(items, instance, related_name, validated_data, 1, {}, has_remove)

\* validated_data.pop(key, None) followed by the helper when the key is there
ReplaceIfPresent(items, instance, instance_name, validated_data) ==
    IF ReplacedName \in DOMAIN validated_data
    THEN instance_replace_related(items, instance, instance_name, ReplacedName,
                                  validated_data[ReplacedName])
    ELSE Returned(items)

MergeIfPresent(items, instance, validated_data, has_remove) ==
    IF MergedName(instance.model) \in DOMAIN validated_data
    THEN instance_create_or_update_related(items, instance, MergedName(instance.model),
                                           validated_data[MergedName(instance.model)],
                                           has_remove)
    ELSE Returned(items)

\* the lists of at most n entries
SeqsUpTo(S, n) == UNION {[1..m -> S] : m \in 0..n}

\* an entry of building_footprints has no id field
FootprintEntries == [value : {InvalidValue} \cup ItemValues]

\* an entry of a merged collection may name a row by id; an entry that fails
\* validation fails with or without an id
MergedEntries ==
    [id : {NULL} \cup (1..MaxItems), value : ItemValues]
    \cup {[id |-> NULL, value |-> InvalidValue]}

\* the number of entries of a payload
Entries(payload) == SumOver([k \in DOMAIN payload |-> Len(payload[k])], DOMAIN payload)

\* the payloads of update(): each nested collection is absent or a list
Payloads ==
    [model \in ParentModels |->
    {payload \in
        [{} -> {}]
        \cup [{ReplacedName} -> SeqsUpTo(FootprintEntries, MaxEntries)]
        \cup [{MergedName(model)} -> SeqsUpTo(MergedEntries, MaxEntries)]
        \cup [{ReplacedName, MergedName(model)} ->
                 SeqsUpTo(FootprintEntries, MaxEntries) \cup SeqsUpTo(MergedEntries, MaxEntries)] :
        /\ Entries(payload) <= MaxEntries
        /\ ReplacedName \in DOMAIN payload
              => payload[ReplacedName] \in SeqsUpTo(FootprintEntries, MaxEntries)
        /\ MergedName(model) \in DOMAIN payload
              => payload[MergedName(model)] \in SeqsUpTo(MergedEntries, MaxEntries)}]

\* the record of a finished call
Call(op, instance, validated_data, result) ==
    [op |-> op, calls |-> req.calls + 1, instance |-> instance,
     validated_data |-> validated_data, raised |-> result.raised, key |-> result.key]

\* ApplicationSerializer.update
ApplicationSerializer_update(instance, validated_data, has_remove) ==
    LET emptied == DeleteAll(item, instance, ReplacedName)
        replaced == ReplaceIfPresent(emptied, instance, "application", validated_data)
        result == IF replaced.raised # "none" THEN replaced
                  ELSE MergeIfPresent(replaced.item, instance, validated_data, has_remove)
    IN  /\ instance.model = "application"
        /\ req.calls < MaxUpdates
        /\ Len(result.item) <= MaxItems
        /\ item' = result.item
        /\ req' = Call("ApplicationSerializer.update", instance, validated_data, result)
        /\ UNCHANGED <<storeVars, lastOp, workerVars, numberVars, log, agreementVars, report>>

\* LeaseCreateUpdateSerializer.update
LeaseCreateUpdateSerializer_update(instance, validated_data, has_remove) ==
    LET replaced == ReplaceIfPresent(item, instance, None, validated_data)
        result == IF replaced.raised # "none" THEN replaced
                  ELSE MergeIfPresent(replaced.item, instance, validated_data, has_remove)
    IN  /\ instance.model = "lease"
        /\ req.calls < MaxUpdates
        /\ Len(result.item) <= MaxItems
        /\ item' = result.item
        /\ req' = Call("LeaseCreateUpdateSerializer.update", instance, validated_data, result)
        /\ UNCHANGED <<storeVars, lastOp, workerVars, numberVars, log, agreementVars, report>>

InitRelated ==
    /\ invoice = [i \in InvoiceIds |-> NewInvoice(CHARGE)]
    /\ rows = <<>>
    /\ payments = <<>>
    /\ lastOp = Other
    /\ Quiet

NextRelated ==
    \E instance \in Instances, has_remove \in BOOLEAN :
        \E validated_data \in Payloads[instance.model] :
            \/ ApplicationSerializer_update(instance, validated_data, has_remove)
            \/ LeaseCreateUpdateSerializer_update(instance, validated_data, has_remove)

SpecRelated == InitRelated /\ [][NextRelated]_vars

\* the last call was given the list validated_data for the merged collection
MergedGiven(call) ==
    /\ call.op # "none"
    /\ MergedName(call.instance.model) \in DOMAIN call.validated_data

\* the rows of another parent: rows that point to a parent instance other
\* than the one the call was made for
OtherParentsRows(items, instance) ==
    {k \in DOMAIN items : /\ items[k].parent \notin {NULL, DELETED}
                          /\ \/ items[k].of # instance.model
                             \/ items[k].parent # instance.id}

\* the collection related_name of the instance is as it was: same rows, same fields
CollectionKept(before, after, instance, related_name) ==
    /\ ManagerAll(after, instance, related_name) = ManagerAll(before, instance, related_name)
    /\ \A k \in ManagerAll(before, instance, related_name) : after[k] = before[k]

\* every id of the list names a row that is there before the call, no id twice
IdsNameRows(items, instance, related_name, data) ==
    /\ \A n \in DOMAIN data :
           data[n].id # NULL => Found(items, instance, related_name, data[n].id)
    /\ \A m, n \in DOMAIN data :
           (m # n /\ data[m].id # NULL) => data[m].id # data[n].id

\* C25: after instance_create_or_update_related returns, the items related to
\* the instance are exactly those described by validated_data: the rows the
\* entries name, updated in place, and one new row for every other entry,
\* for every validated_data, the empty list included
C25_RelatedSetAsGiven ==
    [][(MergedGiven(req') /\ req'.raised = "none") =>
          LET name == MergedName(req'.instance.model)
              data == req'.validated_data[name]
              named == {data[n].id : n \in DOMAIN data} \ {NULL}
              created == {k \in (Len(item) + 1)..Len(item') : item'[k].related_name = name}
          IN  IdsNameRows(item, req'.instance, name, data) =>
                  /\ ManagerAll(item', req'.instance, name) = named \cup created
                  /\ Cardinality(created) = Cardinality({n \in DOMAIN data : data[n].id = NULL})
                  /\ \A n \in DOMAIN data :
                         data[n].id # NULL => item'[data[n].id].value = data[n].value]_vars

\* C26: instance_create_or_update_related leaves the rows of every other
\* parent as they were: none is modified, none is moved to the caller
C26_OtherParentsUntouched ==
    [][MergedGiven(req') =>
          \A k \in OtherParentsRows(item, req'.instance) : item'[k] = item[k]]_vars

\* C27: a call that raises ValidationError names the collection in the error
\* and leaves that collection of the instance exactly as it was
C27_FailureLeavesCollection ==
    [][(req'.op # "none" /\ req'.raised = "ValidationError") =>
          /\ req'.key \in DOMAIN req'.validated_data
          /\ \E n \in DOMAIN req'.validated_data[req'.key] :
                 ~is_valid(req'.validated_data[req'.key][n])
          /\ CollectionKept(item, item', req'.instance, req'.key)]_vars

\* C28: update() leaves a nested collection whose key is absent from
\* validated_data unchanged, and after a successful update with a non-empty
\* building_footprints list the instance's footprints are those given
C28_AbsentCollectionKept ==
    [][req'.op # "none" =>
          /\ \A name \in {ReplacedName, MergedName(req'.instance.model)} :
                 name \notin DOMAIN req'.validated_data
                     => CollectionKept(item, item', req'.instance, name)
          /\ (/\ req'.raised = "none"
              /\ ReplacedName \in DOMAIN req'.validated_data
              /\ req'.validated_data[ReplacedName] # <<>>)
                 => LET given == req'.validated_data[ReplacedName]
                        footprints == ManagerAll(item', req'.instance, ReplacedName)
                    IN  /\ Cardinality(footprints) = Len(given)
                        /\ {item'[k].value : k \in footprints}
                               = {given[n].value : n \in DOMAIN given}]_vars

\* ---------------------------------------------------------------------------
\* LeaseListsReport.get_no_due_date (leasing/report/lease/lease_lists_report.py)
\* ---------------------------------------------------------------------------

\* bounds of the report model
NumLeases == 2

MaxRents == 2

MaxDueDates == 1

\* the rent types: none selected, or one of RentType
RentTypes == {NULL, 1}

\* a rent of a lease: its type and the number of its due dates
Rents == [type : RentTypes, due_dates : 0..MaxDueDates]

\* lease.rents.exclude(type__isnull=True)
TypedRents(lease_rents) == {n \in DOMAIN lease_rents : lease_rents[n].type # NULL}

\* the inner loop: some rent with a type has a due date
due_dates(lease_rents) ==
    \E n \in TypedRents(lease_rents) : lease_rents[n].due_dates > 0

\* the outer loop of get_no_due_date from lease n on, ret being the list so far
RECURSIVE NoDueDateLoop(_, _, _)
NoDueDateLoop(report_data, n, ret) ==
    IF n > Len(report_data) THEN ret
    ELSE NoDueDateLoop(report_data, n + 1,
                       IF ~due_dates(report_data[n])
                       THEN Append(ret, [lease_id |-> n]) ELSE ret)

\* the leases of the report data, by the rents of each
InitReport ==
    /\ invoice = [i \in InvoiceIds |-> NewInvoice(CHARGE)]
    /\ rows = <<>>
    /\ payments = <<>>
    /\ lastOp = Other
    /\ pc = [w \in Workers |-> "idle"]
    /\ local = [w \in Workers |-> NoLocal(0)]
    /\ seq_last = NULL
    /\ seq_lock = NULL
    /\ log = <<>>
    /\ identifier = <<>>
    /\ agreement = <<>>
    /\ table_lock = [t \in Tables |-> NULL]
    /\ item = <<>>
    /\ req = NoCall
    /\ report \in [rents : [1..NumLeases -> SeqsUpTo(Rents, MaxRents)],
                   done : {FALSE}, ret : {<<>>}]

\* LeaseListsReport.get_no_due_date
get_no_due_date ==
    /\ ~report.done
    /\ report' = [report EXCEPT !.done = TRUE,
                                !.ret = NoDueDateLoop(report.rents, 1, <<>>)]
    /\ UNCHANGED <<storeVars, lastOp, workerVars, numberVars, log, agreementVars, item, req>>

NextReport == get_no_due_date

SpecReport == InitReport /\ [][NextReport]_vars

\* how often the result lists the lease
TimesListed(lease) ==
    Cardinality({k \in DOMAIN report.ret : report.ret[k].lease_id = lease})

\* C29: get_no_due_date lists a lease, once, if and only if the lease has at
\* least one rent with a type and none of its rents with a type has a due date
C29_NoDueDateListed ==
    report.done =>
        \A lease \in DOMAIN report.rents :
            /\ TimesListed(lease) <= 1
            /\ TimesListed(lease) = 1 <=>
                   /\ TypedRents(report.rents[lease]) # {}
                   /\ ~due_dates(report.rents[lease])

====
